---- MODULE Spec2Model ----
(***************************************************************************)
(* Model of the two CSV import scripts of scert-feedback-tracker:          *)
(*   fast-import.py        import_data()                                   *)
(*   production-import.py  import_production_data(), clean_phone_number()  *)
(*                                                                         *)
(* A run is a sequence of steps of one script over one input file and one  *)
(* PostgreSQL store.  The store is modelled as a committed database `db`   *)
(* and the working view `txn` of the connection's open transaction.        *)
(* Strings that the code inspects character by character (the phone) are   *)
(* sequences of one-character strings; all other fields are strings.       *)
(***************************************************************************)
EXTENDS Integers, Sequences, FiniteSets, TLC

(***************************************************************************)
(* Bounds of the model.                                                    *)
(***************************************************************************)
\* longest input file (data rows after the header)
MaxRows == 3
\* number of consecutive runs of a script against the same store
MaxRuns == 2
\* longest run of characters after the leading digits of a generated phone
MaxTail == 3
\* flush threshold of the teacher and link buffers (1000 in the source),
\* scaled so that threshold chunks and final partial chunks both occur
batch_size == 2
\* flush threshold of the batch buffer (50 in the source), scaled
batch_flush_size == 2

(***************************************************************************)
(* Values.                                                                 *)
(***************************************************************************)
\* Python's None (teacher_id of a row without identifier)
None == "<None>"

Tables == {"teachers", "batches", "batch_teachers"}

AsciiDigits == {"0", "1", "2", "3", "4", "5", "6", "7", "8", "9"}
\* characters for which str.isdigit() holds: the ASCII digits and the other
\* Unicode digits, represented here by ARABIC-INDIC DIGIT THREE
UnicodeDigits == AsciiDigits \cup {"U+0663"}

\* the literal text "null" as a character sequence
NullText == <<"n", "u", "l", "l">>

(***************************************************************************)
(* Field Normalizer.                                                       *)
(***************************************************************************)
\* re.sub(r'[^0-9]', '', phone_number)
StripNonDigits(phone) == SelectSeq(phone, LAMBDA c : c \in AsciiDigits)

\* fast-import.py: the inline normalisation; <<>> stands for a rejected phone
fast_mobileOffByOne(phone) ==
  LET mobile == StripNonDigits(phone)
  IN  IF Len(mobile) < 10 \/ phone = NullText
      THEN <<>>
      ELSE SubSeq(mobile, 2, IF Len(mobile) < 11 THEN Len(mobile) ELSE 11)

fast_mobile(phone) ==
  LET mobile == StripNonDigits(phone)
  IN  IF Len(mobile) < 10 \/ phone = NullText
      THEN <<>>
      ELSE SubSeq(mobile, 1, 10)

\* production-import.py: clean_phone_number; <<>> stands for None
clean_phone_number(phone) ==
  IF phone = <<>> \/ phone = NullText
  THEN <<>>
  ELSE LET digits == SelectSeq(phone, LAMBDA c : c \in UnicodeDigits)
       IN  IF Len(digits) >= 10 THEN SubSeq(digits, 1, 10) ELSE <<>>

\* the mobile a script derives from a phone field
Mobile(s, phone) ==
  IF s = "fast" THEN fast_mobile(phone) ELSE clean_phone_number(phone)

\* None if teacher_id == 'null' or not teacher_id else teacher_id
clean_teacher_id(teacher_id) ==
  IF teacher_id = "null" \/ teacher_id = "" THEN None ELSE teacher_id

\* x or 'Primary'
OrPrimary(x) == IF x = "" THEN "Primary" ELSE x

\* batch_name and batch_name != 'null'
HasBatch(batch_name) == batch_name # "" /\ batch_name # "null"

(***************************************************************************)
(* Record Decoder.  A row is the list of fields csv.reader returns:        *)
(* district, batch_name, service_type, training_group, teacher_id,         *)
(* teacher_name, phone_number.                                             *)
(***************************************************************************)
\* len(row) < 7: the row is skipped
RowShort(row) == Len(row) < 7

\* the 7-name tuple assignment raises ValueError unless len(row) == 7
UnpackRaises(row) == Len(row) # 7

TeacherRecord(row, mobile) ==
  [teacher_id     |-> clean_teacher_id(row[5]),
   teacher_name   |-> row[6],
   mobile         |-> mobile,
   district       |-> row[1],
   service_type   |-> OrPrimary(row[3]),
   training_group |-> OrPrimary(row[4])]

BatchRecordSwapped(row) ==
  [batch_name       |-> row[2],
   district         |-> row[1],
   coordinator_name |-> "Production Import",
   service_type     |-> OrPrimary(row[4]),
   training_group   |-> OrPrimary(row[3])]

BatchRecord(row) ==
  [batch_name       |-> row[2],
   district         |-> row[1],
   coordinator_name |-> "Production Import",
   service_type     |-> OrPrimary(row[3]),
   training_group   |-> OrPrimary(row[4])]

LinkRecordRawPhone(row, mobile) ==
  [batch_name     |-> row[2],
   teacher_mobile |-> row[7],
   teacher_name   |-> row[6],
   district       |-> row[1]]

LinkRecord(row, mobile) ==
  [batch_name     |-> row[2],
   teacher_mobile |-> mobile,
   teacher_name   |-> row[6],
   district       |-> row[1]]

(***************************************************************************)
(* The store.  A table is the sequence of its rows in insertion order.     *)
(***************************************************************************)
EmptyStore == [teachers |-> <<>>, batches |-> <<>>, batch_teachers |-> <<>>]

\* the columns of the ON CONFLICT clause of each INSERT statement
ConflictKeyById(t, rec) ==
  CASE t = "teachers" -> rec.teacher_id
    [] t = "batches"  -> rec.batch_name
    [] OTHER          -> <<rec.batch_name, rec.teacher_mobile>>

ConflictKey(t, rec) ==
  CASE t = "teachers" -> rec.mobile
    [] t = "batches"  -> rec.batch_name
    [] OTHER          -> <<rec.batch_name, rec.teacher_mobile>>

\* a row with the conflict key of rec is already visible to the statement
HasConflictNever(t, rows, rec) == FALSE

HasConflict(t, rows, rec) ==
  \E i \in 1..Len(rows) : ConflictKey(t, rows[i]) = ConflictKey(t, rec)

\* Data-level errors.  The schema is not part of the repository; each table
\* is given one non-key column with one value its constraints refuse.
Violates(t, rec) ==
  CASE t = "teachers" -> rec.teacher_id = "T_X"
    [] t = "batches"  -> rec.training_group = "G_X"
    [] OTHER          -> rec.teacher_name = "N_X"

\* INSERT ... ON CONFLICT (...) DO NOTHING of one record
InsertRowUpsert(t, rows, rec) ==
  IF HasConflict(t, rows, rec)
  THEN [i \in 1..Len(rows) |->
          IF ConflictKey(t, rows[i]) = ConflictKey(t, rec) THEN rec ELSE rows[i]]
  ELSE Append(rows, rec)

InsertRow(t, rows, rec) ==
  IF HasConflict(t, rows, rec) THEN rows ELSE Append(rows, rec)

\* cursor.executemany(INSERT ..., recs): one INSERT per record, in order;
\* the first record the table's constraints refuse raises.  PostgreSQL
\* checks the constraints of a row before it looks for a conflicting key.
RECURSIVE executemanyLastFirst(_, _, _)
executemanyLastFirst(t, rows, recs) ==
  IF recs = <<>> THEN [ok |-> TRUE, rows |-> rows]
  ELSE IF Violates(t, recs[Len(recs)]) THEN [ok |-> FALSE, rows |-> rows]
  ELSE executemanyLastFirst(t, InsertRow(t, rows, recs[Len(recs)]),
                            SubSeq(recs, 1, Len(recs) - 1))

RECURSIVE executemany(_, _, _)
executemany(t, rows, recs) ==
  IF recs = <<>> THEN [ok |-> TRUE, rows |-> rows]
  ELSE IF Violates(t, Head(recs)) THEN [ok |-> FALSE, rows |-> rows]
  ELSE executemany(t, InsertRow(t, rows, Head(recs)), Tail(recs))

\* conn.commit(): the transaction's view becomes the committed database
commitForgotten(s) == [db |-> s.db, txn |-> s.db]

commit(s) == [db |-> s.txn, txn |-> s.txn]

\* conn.rollback(): the transaction's changes are dropped
rollbackKeeps(s) == [db |-> s.txn, txn |-> s.txn]

rollback(s) == [db |-> s.db, txn |-> s.db]


(***************************************************************************)
(* Bulk writes.  A chunk is [table, recs]; a store state is [db, txn].     *)
(***************************************************************************)
\* records i+1.. of recs cut into slices of n: range(0, len(recs), n)
RECURSIVE Slices(_, _, _)
Slices(t, recs, n) ==
  IF recs = <<>> THEN <<>>
  ELSE IF Len(recs) <= n THEN <<[table |-> t, recs |-> recs]>>
  ELSE <<[table |-> t, recs |-> SubSeq(recs, 1, n)]>>
       \o Slices(t, SubSeq(recs, n + 1, Len(recs)), n)

\* `if buf:` -- a non-empty buffer is one chunk, an empty one is no chunk
IfAny(t, buf) == IF buf = <<>> THEN <<>> ELSE <<[table |-> t, recs |-> buf]>>

\* executemany calls issued one after the other in the open transaction;
\* the first one that raises ends the sequence.  log lists the calls made.
RECURSIVE RunInserts(_, _, _)
RunInserts(s, chunks, log) ==
  IF chunks = <<>> THEN [ok |-> TRUE, s |-> s, log |-> log]
  ELSE LET c  == Head(chunks)
           r  == executemany(c.table, s.txn[c.table], c.recs)
           s1 == [s EXCEPT !.txn[c.table] = r.rows]
           l1 == Append(log, [table |-> c.table, recs |-> c.recs, ok |-> r.ok])
       IN  IF r.ok THEN RunInserts(s1, Tail(chunks), l1)
           ELSE [ok |-> FALSE, s |-> s1, log |-> l1]

\* fast-import.py: `if len(buf) >= threshold: try: executemany; commit
\* except: rollback` -- the buffer is emptied either way
FlushChunkLate(f, t, buf, threshold) ==
  IF Len(buf) <= threshold THEN [s |-> f.s, log |-> f.log, buf |-> buf]
  ELSE LET r == RunInserts(f.s, <<[table |-> t, recs |-> buf]>>, f.log)
       IN  [s   |-> IF r.ok THEN commit(r.s) ELSE rollback(r.s),
            log |-> r.log,
            buf |-> <<>>]

FlushChunk(f, t, buf, threshold) ==
  IF Len(buf) < threshold THEN [s |-> f.s, log |-> f.log, buf |-> buf]
  ELSE LET r == RunInserts(f.s, <<[table |-> t, recs |-> buf]>>, f.log)
       IN  [s   |-> IF r.ok THEN commit(r.s) ELSE rollback(r.s),
            log |-> r.log,
            buf |-> <<>>]

(***************************************************************************)
(* Inputs.                                                                 *)
(***************************************************************************)
\* "(98) 765-43210x9"
PhoneA == <<"(", "9", "8", ")", " ", "7", "6", "5", "-", "4", "3", "2", "1",
            "0", "x", "9">>
\* "9876543210"
PhoneA10 == <<"9", "8", "7", "6", "5", "4", "3", "2", "1", "0">>
\* "9123456780"
PhoneB == <<"9", "1", "2", "3", "4", "5", "6", "7", "8", "0">>
\* "12345"
PhoneShort == <<"1", "2", "3", "4", "5">>
\* "9000000001"
PhoneC == <<"9", "0", "0", "0", "0", "0", "0", "0", "0", "1">>
\* "912345678" followed by ARABIC-INDIC DIGIT THREE
PhoneU == <<"9", "1", "2", "3", "4", "5", "6", "7", "8", "U+0663">>

Catalogue ==
  { <<"D1", "B1", "S1", "G1", "T1", "Alice", PhoneA>>,
    <<"D2", "B1", "", "", "null", "Bob", PhoneA10>>,
    <<"D2", "B2", "S2", "G2", "", "Carol", PhoneB>>,
    <<"D3", "B1", "S3", "G3", "T4", "Dan", PhoneShort>>,
    <<"D1", "B1", "S1", "G1", "T5", "Eve">>,
    <<"D1", "B1", "S1", "G1", "T6", "Fay", PhoneB, "extra">>,
    <<"D1", "null", "S1", "G1", "T_X", "Gus", PhoneB>>,
    <<"D1", "B2", "S1", "G_X", "T8", "Hal", PhoneB>>,
    <<"D1", "B1", "S1", "G1", "T9", "N_X", PhoneB>>,
    <<"D3", "B3", "S3", "", "T10", "Ivy", PhoneC>>,
    <<"D2", "B2", "S2", "G2", "T11", "Uma", PhoneU>> }

Inputs == UNION {[1..n -> Catalogue] : n \in 0..MaxRows}

\* a store left by an earlier import of other data
PopulatedStore ==
  [teachers |-> <<[teacher_id |-> "T0", teacher_name |-> "Old",
                   mobile |-> PhoneA10, district |-> "D0",
                   service_type |-> "S0", training_group |-> "G0"]>>,
   batches |-> <<[batch_name |-> "B1", district |-> "D0",
                  coordinator_name |-> "Production Import",
                  service_type |-> "S0", training_group |-> "G0"]>>,
   batch_teachers |-> <<[batch_name |-> "B1", teacher_mobile |-> PhoneA10,
                         teacher_name |-> "Old", district |-> "D0"]>>]

InitStores == {EmptyStore, PopulatedStore}

(***************************************************************************)
(* State.                                                                  *)
(***************************************************************************)
VARIABLES
  script,               \* "fast" or "production"
  input,                \* the data rows of the CSV file
  db,                   \* committed contents of the three tables
  txn,                  \* the tables as the connection's transaction sees them
  pc,                   \* where the run is
  pos,                  \* index of the next row of the reader
  teacher_batch,        \* teacher_batch / teacher_records
  batch_batch,          \* batch_batch / batch_data
  batch_teacher_batch,  \* batch_teacher_batch / batch_teacher_records
  unique_batches,       \* unique_batches / keys of batch_data
  cause,                \* what raised into the outer handler, or "none"
  exitCode,             \* exit status of the process, -1 while it runs
  connOpen,             \* the connection is open
  writes,               \* history: the executemany calls of this run
  queued,               \* history: per row read, the tables it was queued for
  candidates,           \* history: per row read, the [table, rec] it queued
  run,                  \* number of the current run
  phone,                \* a phone field given to the normaliser on its own
  normal,               \* its normalisation, and that of the result
  prev                  \* history: db and cause at the end of the last run
                        \* (db at the start of this one), db before run 1


vars == <<script, input, db, txn, pc, pos, teacher_batch, batch_batch,
          batch_teacher_batch, unique_batches, cause, exitCode, connOpen,
          writes, queued, candidates, run, phone, normal, prev>>

buffers == <<teacher_batch, batch_batch, batch_teacher_batch, unique_batches>>
fixed == <<script, input, run, prev, phone, normal>>

Init ==
  /\ script \in {"fast", "production"}
  /\ input \in Inputs
  /\ db \in InitStores
  /\ txn = db
  /\ pc = "INIT"
  /\ pos = 1
  /\ teacher_batch = <<>>
  /\ batch_batch = <<>>
  /\ batch_teacher_batch = <<>>
  /\ unique_batches = {}
  /\ cause = "none"
  /\ exitCode = -1
  /\ connOpen = FALSE
  /\ writes = <<>>
  /\ queued = <<>>
  /\ candidates = <<>>
  /\ run = 1
  /\ phone = <<>>
  /\ normal = [done |-> FALSE, once |-> <<>>, twice |-> <<>>]
  /\ prev = [db |-> db, cause |-> "none", first |-> db]


(***************************************************************************)
(* One loop iteration of the reader.                                       *)
(***************************************************************************)
\* what the loop body does with a row before anything is queued
RowOutcome(s, row) ==
  IF RowShort(row) THEN "skip"
  ELSE IF UnpackRaises(row) THEN "raise"
  ELSE IF Mobile(s, row[7]) = <<>> THEN "skip"
  ELSE "ok"

\* `batch_name not in unique_batches` / `batch_name not in batch_data`
NewBatchAlways(row, seen) == HasBatch(row[2])

NewBatch(row, seen) == HasBatch(row[2]) /\ row[2] \notin seen

\* the tables a decoded row is queued for
QueuedFor(row, seen) ==
  {"teachers"}
    \cup (IF NewBatch(row, seen) THEN {"batches"} ELSE {})
    \cup (IF HasBatch(row[2]) THEN {"batch_teachers"} ELSE {})

\* the records a loop iteration appended to a buffer, as candidates
Appended(t, old, new) ==
  [k \in 1..(Len(new) - Len(old)) |-> [table |-> t, rec |-> new[Len(old) + k]]]

\* the rejected rows: `continue`
SkipRow ==
  /\ pc = "STREAMING"
  /\ pos <= Len(input)
  /\ RowOutcome(script, input[pos]) = "skip"
  /\ pos' = pos + 1
  /\ queued' = Append(queued, {})
  /\ candidates' = Append(candidates, <<>>)
  /\ UNCHANGED <<fixed, buffers, db, txn, pc, cause, exitCode, connOpen, writes>>

\* a row of more than 7 fields: the tuple assignment raises ValueError,
\* which only the outer handler catches
RowRaises ==
  /\ pc = "STREAMING"
  /\ pos <= Len(input)
  /\ RowOutcome(script, input[pos]) = "raise"
  /\ pc' = "EXCEPT"
  /\ cause' = "row"
  /\ pos' = pos + 1
  /\ queued' = Append(queued, {})
  /\ candidates' = Append(candidates, <<>>)
  /\ UNCHANGED <<fixed, buffers, db, txn, exitCode, connOpen, writes>>

\* fast-import.py, a decoded row: queue the candidates, then flush every
\* buffer that reached its threshold, each in a transaction of its own
FastRow ==
  /\ script = "fast"
  /\ pc = "STREAMING"
  /\ pos <= Len(input)
  /\ RowOutcome(script, input[pos]) = "ok"
  /\ LET row    == input[pos]
         mobile == Mobile(script, row[7])
         bb == IF NewBatch(row, unique_batches)
               THEN Append(batch_batch, BatchRecord(row)) ELSE batch_batch
         tb == Append(teacher_batch, TeacherRecord(row, mobile))
         lb == IF HasBatch(row[2])
               THEN Append(batch_teacher_batch, LinkRecord(row, mobile))
               ELSE batch_teacher_batch
         f0 == [s |-> [db |-> db, txn |-> txn], log |-> writes]
         f1 == FlushChunk(f0, "teachers", tb, batch_size)
         f2 == FlushChunk(f1, "batches", bb, batch_flush_size)
         f3 == FlushChunk(f2, "batch_teachers", lb, batch_size)
     IN  /\ unique_batches' = IF NewBatch(row, unique_batches)
                              THEN unique_batches \cup {row[2]}
                              ELSE unique_batches
         /\ queued' = Append(queued, QueuedFor(row, unique_batches))
         /\ candidates' = Append(candidates,
                                 Appended("batches", batch_batch, bb)
                                   \o Appended("teachers", teacher_batch, tb)
                                   \o Appended("batch_teachers",
                                               batch_teacher_batch, lb))
         /\ teacher_batch' = f1.buf
         /\ batch_batch' = f2.buf
         /\ batch_teacher_batch' = f3.buf
         /\ db' = f3.s.db
         /\ txn' = f3.s.txn
         /\ writes' = f3.log
  /\ pos' = pos + 1
  /\ UNCHANGED <<fixed, pc, cause, exitCode, connOpen>>

\* production-import.py, a decoded row: queue the candidates only
ProductionRow ==
  /\ script = "production"
  /\ pc = "STREAMING"
  /\ pos <= Len(input)
  /\ RowOutcome(script, input[pos]) = "ok"
  /\ LET row    == input[pos]
         mobile == Mobile(script, row[7])
     IN  /\ unique_batches' = IF NewBatch(row, unique_batches)
                              THEN unique_batches \cup {row[2]}
                              ELSE unique_batches
         /\ batch_batch' = IF NewBatch(row, unique_batches)
                           THEN Append(batch_batch, BatchRecord(row))
                           ELSE batch_batch
         /\ teacher_batch' = Append(teacher_batch, TeacherRecord(row, mobile))
         /\ batch_teacher_batch' =
              IF HasBatch(row[2])
              THEN Append(batch_teacher_batch, LinkRecord(row, mobile))
              ELSE batch_teacher_batch
         /\ queued' = Append(queued, QueuedFor(row, unique_batches))
         /\ candidates' = Append(candidates,
                                 Appended("batches", batch_batch, batch_batch')
                                   \o Appended("teachers", teacher_batch,
                                               teacher_batch')
                                   \o Appended("batch_teachers",
                                               batch_teacher_batch,
                                               batch_teacher_batch'))
  /\ pos' = pos + 1
  /\ UNCHANGED <<fixed, db, txn, pc, cause, exitCode, connOpen, writes>>

\* the reader is exhausted: the loop and the `with` block end
EndOfStream ==
  /\ pc = "STREAMING"
  /\ pos > Len(input)
  /\ pc' = "FINAL_FLUSH"
  /\ UNCHANGED <<fixed, buffers, db, txn, pos, cause, exitCode, connOpen,
                 writes, queued, candidates>>

(***************************************************************************)
(* The writes after the loop.                                              *)
(***************************************************************************)
\* fast-import.py: "Insert remaining records" -- the three buffers that are
\* not empty, in one transaction
FastFinalChunks ==
  IfAny("teachers", teacher_batch)
    \o IfAny("batches", batch_batch)
    \o IfAny("batch_teachers", batch_teacher_batch)

\* production-import.py: all batches in one call, then the teachers and the
\* links in slices of batch_size, in one transaction
ProductionChunks ==
  IfAny("batches", batch_batch)
    \o Slices("teachers", teacher_batch, batch_size)
    \o Slices("batch_teachers", batch_teacher_batch, batch_size)

FinalChunks == IF script = "fast" THEN FastFinalChunks ELSE ProductionChunks

\* every insert succeeds: conn.commit()
FinalFlush ==
  /\ pc = "FINAL_FLUSH"
  /\ LET r == RunInserts([db |-> db, txn |-> txn], FinalChunks, writes)
     IN  /\ r.ok
         /\ db' = commit(r.s).db
         /\ txn' = commit(r.s).txn
         /\ writes' = r.log
  /\ pc' = "VERIFIED"
  /\ UNCHANGED <<fixed, buffers, pos, cause, exitCode, connOpen, queued, candidates>>

\* an insert raises: the calls after it and the commit are not reached
FinalFlushRaises ==
  /\ pc = "FINAL_FLUSH"
  /\ LET r == RunInserts([db |-> db, txn |-> txn], FinalChunks, writes)
     IN  /\ ~r.ok
         /\ db' = r.s.db
         /\ txn' = r.s.txn
         /\ writes' = r.log
  /\ pc' = "EXCEPT"
  /\ cause' = "insert"
  /\ UNCHANGED <<fixed, buffers, pos, exitCode, connOpen, queued, candidates>>

(***************************************************************************)
(* Start, verification and exit.                                           *)
(***************************************************************************)
\* psycopg2.connect and conn.cursor() succeed
Connect ==
  /\ pc = "INIT"
  /\ connOpen' = TRUE
  /\ pc' = "OPEN"
  /\ UNCHANGED <<fixed, buffers, db, txn, pos, cause, exitCode, writes, queued, candidates>>

\* psycopg2.connect raises outside the try block: the exception is not
\* caught and the interpreter exits with status 1
ConnectFails ==
  /\ pc = "INIT"
  /\ pc' = "FAILED"
  /\ cause' = "connect"
  /\ exitCode' = 1
  /\ UNCHANGED <<fixed, buffers, db, txn, pos, connOpen, writes, queued, candidates>>

\* open(...) succeeds and the header line is read
OpenFile ==
  /\ pc = "OPEN"
  /\ pc' = "STREAMING"
  /\ UNCHANGED <<fixed, buffers, db, txn, pos, cause, exitCode, connOpen,
                 writes, queued, candidates>>

\* open(...) raises inside the try block
OpenFails ==
  /\ pc = "OPEN"
  /\ pc' = "EXCEPT"
  /\ cause' = "open"
  /\ UNCHANGED <<fixed, buffers, db, txn, pos, exitCode, connOpen, writes,
                 queued, candidates>>

\* the three SELECT COUNT queries succeed and the totals are printed
Verify ==
  /\ pc = "VERIFIED"
  /\ pc' = "FINALLY"
  /\ UNCHANGED <<fixed, buffers, db, txn, pos, cause, exitCode, connOpen,
                 writes, queued, candidates>>

\* one of the SELECT COUNT queries raises
VerifyFails ==
  /\ pc = "VERIFIED"
  /\ pc' = "EXCEPT"
  /\ cause' = "verify"
  /\ UNCHANGED <<fixed, buffers, db, txn, pos, exitCode, connOpen, writes,
                 queued, candidates>>

\* `except Exception`: conn.rollback(), and sys.exit(1) in
\* production-import.py, which takes effect after the finally block
HandleError ==
  /\ pc = "EXCEPT"
  /\ db' = rollback([db |-> db, txn |-> txn]).db
  /\ txn' = rollback([db |-> db, txn |-> txn]).txn
  /\ pc' = "FINALLY"
  /\ UNCHANGED <<fixed, buffers, pos, cause, exitCode, connOpen, writes, queued, candidates>>

\* exit status once the function is left
ExitStatus(s, c) == IF s = "production" /\ c # "none" THEN 1 ELSE 0

\* `finally`: cursor.close(), conn.close(); then the process ends
FinallyLeaks ==
  /\ pc = "FINALLY"
  /\ connOpen' = (cause # "none")
  /\ txn' = db
  /\ pc' = IF cause = "none" THEN "DONE" ELSE "FAILED"
  /\ exitCode' = ExitStatus(script, cause)
  /\ UNCHANGED <<fixed, buffers, db, pos, cause, writes, queued, candidates>>

Finally ==
  /\ pc = "FINALLY"
  /\ connOpen' = FALSE
  /\ txn' = db
  /\ pc' = IF cause = "none" THEN "DONE" ELSE "FAILED"
  /\ exitCode' = ExitStatus(script, cause)
  /\ UNCHANGED <<fixed, buffers, db, pos, cause, writes, queued, candidates>>

\* the script is started again on the same file against the same store
Rerun ==
  /\ pc \in {"DONE", "FAILED"}
  /\ run < MaxRuns
  /\ run' = run + 1
  /\ prev' = [db |-> db, cause |-> cause, first |-> prev.first]
  /\ pc' = "INIT"
  /\ pos' = 1
  /\ teacher_batch' = <<>>
  /\ batch_batch' = <<>>
  /\ batch_teacher_batch' = <<>>
  /\ unique_batches' = {}
  /\ cause' = "none"
  /\ exitCode' = -1
  /\ writes' = <<>>
  /\ queued' = <<>>
  /\ candidates' = <<>>
  /\ UNCHANGED <<script, input, db, txn, connOpen, phone, normal>>

Next ==
  \/ Connect
  \/ ConnectFails
  \/ OpenFile
  \/ OpenFails
  \/ SkipRow
  \/ RowRaises
  \/ FastRow
  \/ ProductionRow
  \/ EndOfStream
  \/ FinalFlush
  \/ FinalFlushRaises
  \/ Verify
  \/ VerifyFails
  \/ HandleError
  \/ Finally

\* one run of a script against an empty or a populated store
Spec == Init /\ [][Next]_vars

\* consecutive runs of a script on the same file, the first of them
\* against an empty store
InitEmpty == Init /\ db = EmptyStore

NextRerun == Next \/ Rerun

SpecRerun == InitEmpty /\ [][NextRerun]_vars

(***************************************************************************)
(* The two scripts on the same file and the same initial store.            *)
(***************************************************************************)
\* the rows of this run that queued a candidate
AcceptedRows == {i \in 1..Len(candidates) : candidates[i] # <<>>}

\* after fast-import.py has ended, production-import.py is run on the same
\* file against the store as it was before
Switch ==
  /\ pc \in {"DONE", "FAILED"}
  /\ script = "fast"
  /\ script' = "production"
  /\ run' = run + 1
  /\ prev' = [db |-> db, cause |-> cause, first |-> prev.first,
              failed |-> (\E i \in 1..Len(writes) : ~writes[i].ok),
              accepted |-> AcceptedRows]
  /\ db' = prev.first
  /\ txn' = prev.first
  /\ pc' = "INIT"
  /\ pos' = 1
  /\ teacher_batch' = <<>>
  /\ batch_batch' = <<>>
  /\ batch_teacher_batch' = <<>>
  /\ unique_batches' = {}
  /\ cause' = "none"
  /\ exitCode' = -1
  /\ writes' = <<>>
  /\ queued' = <<>>
  /\ candidates' = <<>>
  /\ UNCHANGED <<input, connOpen, phone, normal>>

InitBoth == Init /\ script = "fast"

NextBoth == Next \/ Switch

SpecBoth == InitBoth /\ [][NextBoth]_vars

(***************************************************************************)
(* The phone normaliser on its own.                                        *)
(***************************************************************************)
PhoneAlphabet == {"1", "-", "U+0663"}

\* "98765432"
PhoneCore == <<"9", "8", "7", "6", "5", "4", "3", "2">>

\* phone fields: at most one character, eight digits, at most MaxTail
\* characters; the text "null"; the empty field
PhoneInputs ==
  {h \o PhoneCore \o t :
     h \in UNION {[1..n -> PhoneAlphabet] : n \in 0..1},
     t \in UNION {[1..n -> PhoneAlphabet] : n \in 0..MaxTail}}
    \cup {NullText, <<>>}

InitPhone ==
  /\ script \in {"fast", "production"}
  /\ input = <<>>
  /\ db = EmptyStore
  /\ txn = db
  /\ pc = "INIT"
  /\ pos = 1
  /\ teacher_batch = <<>>
  /\ batch_batch = <<>>
  /\ batch_teacher_batch = <<>>
  /\ unique_batches = {}
  /\ cause = "none"
  /\ exitCode = -1
  /\ connOpen = FALSE
  /\ writes = <<>>
  /\ queued = <<>>
  /\ candidates = <<>>
  /\ run = 1
  /\ phone \in PhoneInputs
  /\ normal = [done |-> FALSE, once |-> <<>>, twice |-> <<>>]
  /\ prev = [db |-> db, cause |-> "none", first |-> db]

\* the script's normalisation applied to the phone, and again to the result
Normalize ==
  /\ ~normal.done
  /\ normal' = [done  |-> TRUE,
                once  |-> Mobile(script, phone),
                twice |-> Mobile(script, Mobile(script, phone))]
  /\ UNCHANGED <<script, input, db, txn, pc, pos, buffers, cause, exitCode,
                 connOpen, writes, queued, candidates, run, phone, prev>>

SpecPhone == InitPhone /\ [][Normalize]_vars


(***************************************************************************)
(* Vocabulary of the properties.                                           *)
(***************************************************************************)
Terminal == pc \in {"DONE", "FAILED"}

\* some executemany call of this run raised
SomeWriteFailed == \E i \in 1..Len(writes) : ~writes[i].ok

\* number of records handed to executemany for table t in this run
RECURSIVE SubmittedCount(_, _)
SubmittedCount(t, log) ==
  IF log = <<>> THEN 0
  ELSE (IF Head(log).table = t THEN Len(Head(log).recs) ELSE 0)
       + SubmittedCount(t, Tail(log))

\* number of candidates queued for table t in this run
QueuedCount(t) == Cardinality({i \in 1..Len(queued) : t \in queued[i]})

\* table t of the committed database holds a row with the key of rec
Stored(t, rec) ==
  \E k \in 1..Len(db[t]) : ConflictKey(t, db[t][k]) = ConflictKey(t, rec)

\* wrong field count or a phone the script rejects
Malformed(row) ==
  \/ Len(row) # 7
  \/ Mobile(script, row[7]) = <<>>

\* the rows of the input that carry batch name b in their 7 fields, and
\* those of them the decoder accepts
Carrying(b) == {i \in 1..Len(input) : Len(input[i]) = 7 /\ input[i][2] = b}
Accepted(b) == {i \in Carrying(b) : RowOutcome(script, input[i]) = "ok"}
Least(S) == CHOOSE i \in S : \A j \in S : i <= j
BatchNames == {input[i][2] : i \in 1..Len(input)}

\* state of the coordinator's state machine
Phase(p, c) ==
  CASE p \in {"INIT", "OPEN"} -> "INIT"
    [] p = "EXCEPT"           -> "FAILED"
    [] p = "FINALLY"          -> IF c = "none" THEN "VERIFIED" ELSE "FAILED"
    [] OTHER                  -> p

PhaseOrder ==
  {<<"INIT", "STREAMING">>, <<"STREAMING", "FINAL_FLUSH">>,
   <<"FINAL_FLUSH", "VERIFIED">>, <<"VERIFIED", "DONE">>}

(***************************************************************************)
(* Properties.                                                             *)
(***************************************************************************)
\* C1: when the bulk insert of a chunk raises a data-level error, the run
\* does not abort: every queued record is still handed to the writer, and
\* the run ends as a success (DONE), never as FAILED.
C1_ChunkFailureIsolated ==
  (Terminal /\ SomeWriteFailed)
    => /\ pc = "DONE"
       /\ \A t \in Tables : SubmittedCount(t, writes) = QueuedCount(t)

\* C2: each chunk is a transaction of its own: when the insert of one chunk
\* fails, the records of every chunk whose insert succeeded are committed.
C2_ChunkOwnTransaction ==
  (Terminal /\ SomeWriteFailed)
    => \A i \in 1..Len(writes) :
         writes[i].ok
           => \A j \in 1..Len(writes[i].recs) :
                Stored(writes[i].table, writes[i].recs[j])

\* C3: a committed row is never deleted or changed by a later step: every
\* table of the committed database only grows at its end.
C3_CommittedRowsKept ==
  [][\A t \in Tables :
       /\ Len(db'[t]) >= Len(db[t])
       /\ SubSeq(db'[t], 1, Len(db[t])) = db[t]]_vars

\* a run that had a chunk rolled back and a later successful chunk holding a
\* record whose key was already stored with other attributes
C3_Witness ==
  /\ pc = "DONE"
  /\ \E f \in 1..Len(writes) :
       /\ ~writes[f].ok
       /\ \E i \in (f + 1)..Len(writes) :
            /\ writes[i].ok
            /\ \E j \in 1..Len(writes[i].recs) :
                 \E k \in 1..Len(db[writes[i].table]) :
                   /\ ConflictKey(writes[i].table, db[writes[i].table][k])
                        = ConflictKey(writes[i].table, writes[i].recs[j])
                   /\ db[writes[i].table][k] # writes[i].recs[j]

\* C4: the teachers table holds at most one row per mobile number.
C4_OneTeacherPerMobile ==
  \A i, j \in 1..Len(db.teachers) :
    db.teachers[i].mobile = db.teachers[j].mobile => i = j

\* a completed run over two decoded rows of the same mobile, written by
\* different executemany calls, with a row of that mobile in the store
C4_Witness ==
  /\ pc = "DONE"
  /\ \E a, b \in 1..Len(writes) :
       /\ a < b
       /\ writes[a].table = "teachers" /\ writes[a].ok
       /\ writes[b].table = "teachers" /\ writes[b].ok
       /\ \E x \in 1..Len(writes[a].recs), y \in 1..Len(writes[b].recs) :
            /\ writes[a].recs[x].mobile = writes[b].recs[y].mobile
            /\ writes[a].recs[x] # writes[b].recs[y]
            /\ Stored("teachers", writes[a].recs[x])


\* C5 as stated: after a completed import every batch name carried by two
\* or more input rows has exactly one batches row, with the district and
\* the (defaulted) service type and training group of the first input row
\* carrying that name.
C5_FirstRowWins ==
  pc = "DONE"
    => \A b \in BatchNames :
         (HasBatch(b) /\ Cardinality(Carrying(b)) >= 2)
           => LET first == input[Least(Carrying(b))]
                  found == {k \in 1..Len(db.batches) :
                              db.batches[k].batch_name = b}
              IN  /\ Cardinality(found) = 1
                  /\ \A k \in found :
                       /\ db.batches[k].district = first[1]
                       /\ db.batches[k].service_type
                            = (IF first[3] = "" THEN "Primary" ELSE first[3])
                       /\ db.batches[k].training_group
                            = (IF first[4] = "" THEN "Primary" ELSE first[4])

\* C5, amended: after a completed import in which no chunk write failed,
\* every batch name carried by two or more input rows, at least one of them
\* accepted by the decoder, and not in the store when the run began, has
\* exactly one batches row, with the district and the (defaulted) service
\* type and training group of the first accepted row carrying that name.
C5_FirstAcceptedRowWins ==
  (pc = "DONE" /\ ~SomeWriteFailed)
    => \A b \in BatchNames :
         ( /\ HasBatch(b)
           /\ Cardinality(Carrying(b)) >= 2
           /\ Accepted(b) # {}
           /\ \A k \in 1..Len(prev.db.batches) :
                prev.db.batches[k].batch_name # b )
           => LET first == input[Least(Accepted(b))]
                  found == {k \in 1..Len(db.batches) :
                              db.batches[k].batch_name = b}
              IN  /\ Cardinality(found) = 1
                  /\ \A k \in found :
                       /\ db.batches[k].district = first[1]
                       /\ db.batches[k].service_type
                            = (IF first[3] = "" THEN "Primary" ELSE first[3])
                       /\ db.batches[k].training_group
                            = (IF first[4] = "" THEN "Primary" ELSE first[4])

\* a completed run without failed writes over a batch name whose first
\* carrying row was rejected and whose later row was accepted and stored
C5_Witness ==
  /\ pc = "DONE"
  /\ ~SomeWriteFailed
  /\ \E b \in BatchNames :
       /\ HasBatch(b)
       /\ Cardinality(Carrying(b)) >= 2
       /\ Accepted(b) # {}
       /\ Least(Accepted(b)) > Least(Carrying(b))
       /\ input[Least(Accepted(b))][1] # input[Least(Carrying(b))][1]
       /\ \A k \in 1..Len(prev.db.batches) : prev.db.batches[k].batch_name # b
       /\ \E k \in 1..Len(db.batches) : db.batches[k].batch_name = b

\* C6: after an import against an empty store that read the input, every
\* further run on the same input leaves the store as the run before left
\* it: it adds, removes and changes no row, so the row counts of the three
\* tables stay the same.
C6_RerunChangesNothing ==
  (run > 1 /\ prev.cause \notin {"connect", "open"}) => db = prev.db

\* the second of two completed runs that started from an empty store, with
\* rows stored by the first and inserts issued again by the second
C6_Witness ==
  /\ run = 2
  /\ pc = "DONE"
  /\ prev.first = EmptyStore
  /\ prev.cause = "none"
  /\ \A t \in Tables : Len(db[t]) > 0
  /\ \A t \in Tables : SubmittedCount(t, writes) > 0

\* C7: the run moves INIT -> STREAMING -> FINAL_FLUSH -> VERIFIED -> DONE
\* in that order, and FAILED is entered only when the store connection
\* cannot be established or the source file cannot be opened.
C7_StateMachine ==
  [][run' = run
       => /\ Phase(pc', cause') # Phase(pc, cause)
               => \/ <<Phase(pc, cause), Phase(pc', cause')>> \in PhaseOrder
                  \/ Phase(pc', cause') = "FAILED"
          /\ Phase(pc', cause') = "FAILED"
               => cause' \in {"connect", "open"}]_vars

\* C8: after an unrecoverable failure (no connection, no source file) no
\* transaction is left open and the process exit status is non-zero.
C8_FatalExitsNonZero ==
  (pc = "FAILED" /\ cause \in {"connect", "open"})
    => (exitCode # 0 /\ txn = db)

\* C9: a row with a wrong field count or an unparseable phone is skipped:
\* it queues no candidate, the rows after it are still read, and the run
\* does not fail because of it.
C9_MalformedRowSkipped ==
  \A i \in 1..Len(queued) :
    Malformed(input[i])
      => /\ queued[i] = {}
         /\ cause # "row"
         /\ (Terminal /\ cause \notin {"connect", "open"}) => pos > Len(input)

\* C10: the verification queries leave the store unchanged, and a run whose
\* verification query failed ends without a failure exit status and with
\* the committed rows in place.
C10_VerificationHarmless ==
  [][/\ pc = "VERIFIED" => db' = db
     /\ (run' = run /\ pc' \in {"DONE", "FAILED"} /\ cause' = "verify")
          => (exitCode' = 0 /\ db' = db)]_vars

\* C11: once the connection has been acquired it is closed on every exit
\* path: when the run has ended, normally or in failure, with exit status
\* zero or non-zero, the connection is not open.
C11_ConnectionClosed ==
  Terminal => ~connOpen

\* a run that acquired the connection, had an insert fail, went through
\* the outer handler and left the process with a non-zero status
C11_Witness ==
  /\ pc = "FAILED"
  /\ cause = "insert"
  /\ exitCode = 1
  /\ SomeWriteFailed
  /\ ~connOpen

\* the records queued for table t in this run, in queueing order
RECURSIVE Concat(_)
Concat(ss) == IF ss = <<>> THEN <<>> ELSE Head(ss) \o Concat(Tail(ss))

CandidatesOf(t) ==
  LET sel == SelectSeq(Concat(candidates), LAMBDA c : c.table = t)
  IN  [k \in 1..Len(sel) |-> sel[k].rec]

\* the record lists of the executemany calls for table t, in call order
WritesOf(t) ==
  LET sel == SelectSeq(writes, LAMBDA w : w.table = t)
  IN  [k \in 1..Len(sel) |-> sel[k].recs]

\* every row of the input was decoded, and no two rows share a mobile
AllValidDistinct ==
  /\ \A i \in 1..Len(input) : RowOutcome(script, input[i]) = "ok"
  /\ \A i, j \in 1..Len(input) :
       Mobile(script, input[i][7]) = Mobile(script, input[j][7]) => i = j

\* C12: in a completed run that queued N teacher records, the writer was
\* invoked for teachers exactly ceil(N / batch_size) times; call k holds
\* the records (k-1)*batch_size+1 .. of the queue in input order, batch_size
\* of them in a full chunk and N mod batch_size in the last, and no call
\* is made for an empty remainder.
C12_TeacherChunks ==
  pc = "DONE"
    => LET q == CandidatesOf("teachers")
           w == WritesOf("teachers")
           N == Len(q)
       IN  /\ Len(w) = (N + batch_size - 1) \div batch_size
           /\ \A k \in 1..Len(w) :
                /\ Len(w[k]) = IF k * batch_size <= N
                               THEN batch_size ELSE N % batch_size
                /\ Len(w[k]) > 0
                /\ \A j \in 1..Len(w[k]) :
                     w[k][j] = q[(k - 1) * batch_size + j]

\* a completed run over valid rows with distinct mobiles, more of them than
\* the threshold and not a multiple of it
C12_Witness ==
  /\ pc = "DONE"
  /\ AllValidDistinct
  /\ Len(input) > batch_size
  /\ Len(input) % batch_size # 0
  /\ Len(CandidatesOf("teachers")) = Len(input)
  /\ Len(WritesOf("teachers")) = 2

\* C13: phone normalisation is idempotent on its own output: an accepted
\* phone yields 10 characters which, normalised again, are accepted and
\* returned unchanged -- for the inline code of fast-import.py and for
\* clean_phone_number of production-import.py.
C13_NormalizeIdempotent ==
  (normal.done /\ normal.once # <<>>)
    => (Len(normal.once) = 10 /\ normal.twice = normal.once)

\* an accepted phone of more than 10 characters that the normaliser changed
C13_Witness ==
  /\ normal.done
  /\ normal.once # <<>>
  /\ Len(phone) > 10
  /\ normal.once # phone

\* the Batch candidates of name b queued so far in this run
BatchCandidates(b) ==
  SelectSeq(CandidatesOf("batches"), LAMBDA r : r.batch_name = b)

\* the accepted rows carrying batch name b that the reader has delivered
AcceptedRead(b) == {i \in Accepted(b) : i <= Len(candidates)}

\* C14 as stated: over a completed run, every batch name referenced by one
\* or more input rows has exactly one Batch candidate queued, with the
\* district and (defaulted) service type and training group of the first
\* of those rows.
C14_OneCandidatePerName ==
  pc = "DONE"
    => \A b \in BatchNames :
         (HasBatch(b) /\ Carrying(b) # {})
           => LET first == input[Least(Carrying(b))]
                  c     == BatchCandidates(b)
              IN  /\ Len(c) = 1
                  /\ c[1].district = first[1]
                  /\ c[1].service_type
                       = (IF first[3] = "" THEN "Primary" ELSE first[3])
                  /\ c[1].training_group
                       = (IF first[4] = "" THEN "Primary" ELSE first[4])

\* C14, amended: at every point of a run, a batch name referenced by one or
\* more rows that the decoder accepted has exactly one Batch candidate
\* queued, with the district and (defaulted) service type and training
\* group of the first of those accepted rows -- also after the chunk that
\* held it was discarded; a name referenced by no accepted row has none.
C14_OneCandidatePerAcceptedName ==
  \A b \in BatchNames :
    HasBatch(b)
      => LET c == BatchCandidates(b)
         IN  IF AcceptedRead(b) = {}
             THEN Len(c) = 0
             ELSE LET first == input[Least(AcceptedRead(b))]
                  IN  /\ Len(c) = 1
                      /\ c[1].district = first[1]
                      /\ c[1].service_type
                           = (IF first[3] = "" THEN "Primary" ELSE first[3])
                      /\ c[1].training_group
                           = (IF first[4] = "" THEN "Primary" ELSE first[4])

\* a completed run in which the chunk holding the candidate of a batch name
\* was discarded and a later accepted row referenced the same name
C14_Witness ==
  /\ pc = "DONE"
  /\ \E b \in BatchNames :
       /\ HasBatch(b)
       /\ Cardinality(AcceptedRead(b)) >= 2
       /\ \E f \in 1..Len(writes) :
            /\ writes[f].table = "batches"
            /\ ~writes[f].ok
            /\ \E j \in 1..Len(writes[f].recs) :
                 writes[f].recs[j].batch_name = b

\* C15: after the row stream is exhausted the remaining records of every
\* buffer are written, also when fewer than the threshold: when the run has
\* ended, the records handed to the writer for each table are exactly the
\* queued candidates, each in one chunk, none left out and none twice.
C15_EveryCandidateSubmittedOnce ==
  Terminal
    => \A t \in Tables : Concat(WritesOf(t)) = CandidatesOf(t)

\* the candidates row i queued for table t
RowCandidates(i, t) ==
  LET sel == SelectSeq(candidates[i], LAMBDA c : c.table = t)
  IN  [k \in 1..Len(sel) |-> sel[k].rec]

\* C16: every row that survives phone validation queues exactly one Teacher
\* candidate, and exactly one Link candidate (batch name, normalised
\* mobile) if and only if its batch name is neither empty nor "null",
\* whether or not the batch name was seen before.
C16_TeacherAndLinkPerRow ==
  \A i \in 1..Len(candidates) :
    RowOutcome(script, input[i]) = "ok"
      => LET row == input[i]
             te  == RowCandidates(i, "teachers")
             li  == RowCandidates(i, "batch_teachers")
         IN  /\ Len(te) = 1
             /\ te[1].mobile = Mobile(script, row[7])
             /\ Len(li) = (IF row[2] \notin {"", "null"} THEN 1 ELSE 0)
             /\ \A k \in 1..Len(li) :
                  /\ li[k].batch_name = row[2]
                  /\ li[k].teacher_mobile = Mobile(script, row[7])

\* a decoded row whose batch name had been seen before, so that it queued
\* a Teacher and a Link candidate but no Batch candidate, and a decoded row
\* without batch name, which queued a Teacher candidate only
C16_Witness ==
  /\ \E i \in 1..Len(candidates) :
       /\ RowOutcome(script, input[i]) = "ok"
       /\ HasBatch(input[i][2])
       /\ input[i][7] # Mobile(script, input[i][7])
       /\ Len(RowCandidates(i, "batches")) = 0
       /\ Len(RowCandidates(i, "batch_teachers")) = 1
  /\ \E i \in 1..Len(candidates) :
       /\ RowOutcome(script, input[i]) = "ok"
       /\ ~HasBatch(input[i][2])
       /\ Len(candidates[i]) = 1

\* the decoded rows of the input whose phone normalises to mobile m
RowsOfMobile(m) ==
  {i \in 1..Len(input) :
     RowOutcome(script, input[i]) = "ok" /\ Mobile(script, input[i][7]) = m}

\* the store held a teachers row of mobile m when the run began
MobileKnown(m) ==
  \E k \in 1..Len(prev.db.teachers) : prev.db.teachers[k].mobile = m

IsPrefix(a, b) == Len(a) <= Len(b) /\ SubSeq(b, 1, Len(a)) = a

\* C17: the records of one table reach the writer in input order, and as
\* long as no chunk write has failed, a teachers row of a mobile the store
\* did not hold when the run began has the teacher identifier, name,
\* district, service type and training group of the earliest decoded input
\* row of that mobile; after a completed run every such mobile has its row.
C17_EarliestRowWins ==
  /\ \A t \in Tables : IsPrefix(Concat(WritesOf(t)), CandidatesOf(t))
  /\ ~SomeWriteFailed
       => /\ \A k \in 1..Len(db.teachers) :
               ~MobileKnown(db.teachers[k].mobile)
                 => /\ RowsOfMobile(db.teachers[k].mobile) # {}
                    /\ LET row == input[Least(RowsOfMobile(db.teachers[k].mobile))]
                       IN  /\ db.teachers[k].teacher_id
                                = (IF row[5] \in {"", "null"} THEN None ELSE row[5])
                           /\ db.teachers[k].teacher_name = row[6]
                           /\ db.teachers[k].district = row[1]
                           /\ db.teachers[k].service_type
                                = (IF row[3] = "" THEN "Primary" ELSE row[3])
                           /\ db.teachers[k].training_group
                                = (IF row[4] = "" THEN "Primary" ELSE row[4])
          /\ pc = "DONE"
               => \A i \in 1..Len(input) :
                    RowOutcome(script, input[i]) = "ok"
                      => \E k \in 1..Len(db.teachers) :
                           db.teachers[k].mobile = Mobile(script, input[i][7])

\* a completed run without failed writes in which two decoded rows of one
\* mobile, unknown to the store before, with different attributes, went to
\* the writer in different chunks
C17_Witness ==
  /\ pc = "DONE"
  /\ ~SomeWriteFailed
  /\ \E a, b \in 1..Len(writes) :
       /\ a < b
       /\ writes[a].table = "teachers"
       /\ writes[b].table = "teachers"
       /\ \E x \in 1..Len(writes[a].recs), y \in 1..Len(writes[b].recs) :
            /\ writes[a].recs[x].mobile = writes[b].recs[y].mobile
            /\ writes[a].recs[x].teacher_name # writes[b].recs[y].teacher_name
            /\ ~MobileKnown(writes[a].recs[x].mobile)
            /\ \E k \in 1..Len(db.teachers) : db.teachers[k] = writes[a].recs[x]

\* a committed link row that the run added and whose teacher is not stored
LinkWithoutTeacher ==
  \E k \in 1..Len(db.batch_teachers) :
    /\ k > Len(prev.db.batch_teachers)
    /\ \A j \in 1..Len(db.teachers) :
         db.teachers[j].mobile # db.batch_teachers[k].teacher_mobile

\* a committed link row that the run added and whose batch is not stored
LinkWithoutBatch ==
  \E k \in 1..Len(db.batch_teachers) :
    /\ k > Len(prev.db.batch_teachers)
    /\ \A j \in 1..Len(db.batches) :
         db.batches[j].batch_name # db.batch_teachers[k].batch_name

\* C18: link writes of fast-import.py are independent of the teacher and
\* batch writes: unless a final insert sent the run to the outer handler,
\* every record of a link chunk whose insert succeeded is in the store,
\* whatever became of the teacher and batch chunks -- so a run can end with
\* a link row whose teacher or batch is not stored.
C18_LinksIndependent ==
  (script = "fast" /\ cause # "insert")
    => \A i \in 1..Len(writes) :
         (writes[i].table = "batch_teachers" /\ writes[i].ok)
           => \A j \in 1..Len(writes[i].recs) :
                Stored("batch_teachers", writes[i].recs[j])

\* a completed run of fast-import.py that discarded a teacher or a batch
\* chunk and committed a link row referring to a record of that chunk
C18_Witness ==
  /\ script = "fast"
  /\ pc = "DONE"
  /\ SomeWriteFailed
  /\ LinkWithoutTeacher \/ LinkWithoutBatch

\* the run has passed the conn.commit() that follows the last insert
Committed ==
  \/ pc = "VERIFIED"
  \/ pc \in {"FINALLY", "DONE"} /\ cause = "none"
  \/ cause = "verify"

\* the queued records of table t whose key the store did not hold when the
\* run began and no earlier queued record of the table has
FirstOfKey(t) ==
  LET q == CandidatesOf(t)
  IN  {k \in 1..Len(q) :
         /\ \A j \in 1..(k - 1) : ConflictKey(t, q[j]) # ConflictKey(t, q[k])
         /\ \A j \in 1..Len(prev.db[t]) :
              ConflictKey(t, prev.db[t][j]) # ConflictKey(t, q[k])}

\* C19: production-import.py persists all or nothing: until its single
\* commit, and for good when a step before it failed, the three tables are
\* as they were before the run; once the commit is passed, every queued
\* record whose key conflicts with no earlier row is in the store, and the
\* key of every queued record is.
C19_AllOrNothing ==
  script = "production"
    => IF Committed
       THEN \A t \in Tables :
              LET q == CandidatesOf(t)
              IN  /\ \A k \in 1..Len(q) : Stored(t, q[k])
                  /\ \A k \in FirstOfKey(t) :
                       \E j \in 1..Len(db[t]) : db[t][j] = q[k]
       ELSE db = prev.db

\* a run of production-import.py in which inserts succeeded, a later insert
\* raised, and the store is as it was before the run
C19_Witness ==
  /\ script = "production"
  /\ pc = "FAILED"
  /\ cause = "insert"
  /\ \E i \in 1..Len(writes) : writes[i].ok /\ Len(writes[i].recs) > 0
  /\ db = prev.db

\* C20: the two scripts implement the same import: on the same input and
\* the same initial store, when no store operation fails in either run,
\* production-import.py accepts the rows fast-import.py accepted and
\* leaves the same rows in teachers, batches and batch_teachers.
C20_SameImport ==
  ( /\ script = "production"
    /\ run = 2
    /\ pc = "DONE"
    /\ ~SomeWriteFailed
    /\ prev.cause = "none"
    /\ ~prev.failed )
    => (AcceptedRows = prev.accepted /\ db = prev.db)

====
